---- MODULE Spec2Model ----
(***************************************************************************)
(* edc-form-runners: FormRunner re-runs modelform validation on stored     *)
(* model instances and records every field error as an Issue row;          *)
(* run_form_runners drives one FormRunner per registered model.            *)
(*                                                                         *)
(* Python values are modelled as records of one shape (kind, n, s) so that *)
(* None, an int, a str, a related object and "no such attribute" can be    *)
(* compared with one another.  Texts are TLA+ strings; they are sliced and *)
(* scanned character by character with SubSeq, Len and \o.                 *)
(***************************************************************************)
EXTENDS Integers, Sequences, FiniteSets, TLC

VARIABLES
    records,    \* the stored model instances: record id -> [model, attrs]
    issues,     \* the Issue table, rows in insertion order
    runner,     \* the FormRunner objects and the position of each one's run()
    sessions,   \* number of FormRunner objects constructed so far (uuid4 / get_utcnow)
    edits,      \* number of times stored data was changed between runs
    hist,       \* history: the Issue table when the current run started / last run ended
    batch       \* run_form_runners: its arguments, lists and position

vars == <<records, issues, runner, sessions, edits, hist, batch>>

(***************************************************************************)
(* Bounds of the model.                                                    *)
(***************************************************************************)
MaxSessions == 2
MaxRuns == 2
MaxEdits == 1
LongPad == 255

(***************************************************************************)
(* Python values.                                                          *)
(***************************************************************************)
None == [kind |-> "none", n |-> 0, s |-> ""]
NoAttr == [kind |-> "noattr", n |-> 0, s |-> ""]
PyInt(i) == [kind |-> "int", n |-> i, s |-> ""]
PyStr(t) == [kind |-> "str", n |-> 0, s |-> t]
PyObj(name) == [kind |-> "obj", n |-> 0, s |-> name]

Truthy(v) == ~(v = None \/ v = PyStr("") \/ v = PyInt(0))

Digit(d) == SubSeq("0123456789", d + 1, d + 1)

RECURSIVE NatStr(_)
NatStr(i) == IF i < 10 THEN Digit(i) ELSE NatStr(i \div 10) \o Digit(i % 10)

\* str(value)
Str(v) ==
    CASE v.kind = "int" -> IF v.n < 0 THEN "-" \o NatStr(-v.n) ELSE NatStr(v.n)
      [] v.kind = "none" -> "None"
      [] OTHER -> v.s

Min(a, b) == IF a < b THEN a ELSE b

\* text[:k]
Slice(text, k) == SubSeq(text, 1, Min(k, Len(text)))

RECURSIVE Rep(_, _)
\* t * k
Rep(t, k) ==
    IF k = 0 THEN ""
    ELSE LET half == Rep(t, k \div 2)
         IN  IF k % 2 = 0 THEN half \o half ELSE half \o half \o t

RECURSIVE JoinComma(_)
\* ",".join(names)
JoinComma(names) ==
    IF names = <<>> THEN ""
    ELSE IF Len(names) = 1 THEN names[1]
    ELSE names[1] \o "," \o JoinComma(Tail(names))

StartsWith(text, pre) ==
    Len(text) >= Len(pre) /\ SubSeq(text, 1, Len(pre)) = pre

Drop(text, k) == SubSeq(text, k + 1, Len(text))

\* the position of the first ch in text, 0 if there is none
FirstIndex(text, ch) ==
    LET at == {i \in 1..Len(text) : SubSeq(text, i, i) = ch}
    IN  IF at = {} THEN 0 ELSE CHOOSE i \in at : \A j \in at : i <= j

RECURSIVE HtmlUnescape(_)
\* html.unescape: named character references become the character
HtmlUnescape(text) ==
    LET i == FirstIndex(text, "&")
        rest == Drop(text, i - 1)
        before == SubSeq(text, 1, i - 1)
    IN  IF i = 0 THEN text
        ELSE IF StartsWith(rest, "&amp;") THEN before \o "&" \o HtmlUnescape(Drop(rest, 5))
        ELSE IF StartsWith(rest, "&lt;") THEN before \o "<" \o HtmlUnescape(Drop(rest, 4))
        ELSE IF StartsWith(rest, "&gt;") THEN before \o ">" \o HtmlUnescape(Drop(rest, 4))
        ELSE IF StartsWith(rest, "&quot;") THEN before \o "\"" \o HtmlUnescape(Drop(rest, 6))
        ELSE before \o "&" \o HtmlUnescape(Drop(rest, 1))

RECURSIVE SoupText(_)
\* BeautifulSoup(text, "html.parser").text: the text with its markup removed
SoupText(text) ==
    LET i == FirstIndex(text, "<")
        rest == Drop(text, i - 1)
        j == FirstIndex(rest, ">")
    IN  IF i = 0 \/ j = 0 THEN text
        ELSE SubSeq(text, 1, i - 1) \o SoupText(Drop(rest, j))

\* ErrorList.as_text() of a one-entry error list
AsText(err) == "* " \o err

ShortLen == 250

(***************************************************************************)
(* The stored data the runner reads: model classes, their declared fields, *)
(* related visits, model instances.                                        *)
(***************************************************************************)
AttrNames ==
    {"id", "revision", "report_datetime", "modified", "user_modified", "site",
     "subject_visit", "subject_identifier", "visit_code", "visit_code_sequence",
     "visit_schedule_name", "schedule_name", "panel", "weight", "clinic", "nurse"}

VisitAttrNames ==
    {"subject_identifier", "visit_code", "visit_code_sequence",
     "visit_schedule_name", "schedule_name"}

\* model_cls._meta.get_fields(): the kind of each declared field
FieldKind(model, name) ==
    CASE name \in {"subject_visit", "panel", "clinic"} /\ model = "a.crf" -> "fk"
      [] name = "site" -> "fk"
      [] name \in {"id", "revision", "report_datetime", "modified",
                   "user_modified", "weight"} -> "scalar"
      [] name \in VisitAttrNames /\ model = "b.visit" -> "scalar"
      [] OTHER -> "none"

\* model_cls._meta.verbose_name
VerboseName(model) ==
    CASE model = "a.crf" -> "Crf"
      [] model = "a.log" -> "Log"
      [] model = "b.visit" -> "Visit"
      [] OTHER -> model

\* the attributes of a related-visit object
VisitAttr(v, name) ==
    CASE name = "subject_identifier" -> PyStr(IF v = "v1" THEN "s1" ELSE "s2")
      [] name = "visit_code" -> PyStr("1000")
      [] name = "visit_code_sequence" -> PyInt(0)
      [] name = "visit_schedule_name" -> PyStr("vs")
      [] name = "schedule_name" -> PyStr("sch")
      [] OTHER -> NoAttr

BaseAttrs(id) ==
    [a \in AttrNames |->
        CASE a = "id" -> PyInt(id)
          [] a = "revision" -> PyStr("1.0")
          [] a = "report_datetime" -> PyInt(20)
          [] a = "modified" -> PyInt(21)
          [] a = "user_modified" -> PyStr("erik")
          [] a = "site" -> PyObj("site10")
          [] OTHER -> NoAttr]

\* an instance of a.crf
Crf(id, visit, panel, weight, clinic) ==
    [model |-> "a.crf",
     attrs |-> [BaseAttrs(id) EXCEPT !["subject_visit"] = visit, !["panel"] = panel,
                                     !["weight"] = weight, !["clinic"] = clinic]]

\* an instance of b.visit: it carries the visit attributes itself
Visit(id, v, weight) ==
    [model |-> "b.visit",
     attrs |-> [a \in AttrNames |->
                  IF a \in VisitAttrNames THEN VisitAttr(v, a)
                  ELSE IF a = "weight" THEN weight
                  ELSE BaseAttrs(id)[a]]]

\* an instance of a.log: neither a related visit nor visit attributes
Log(id, weight) ==
    [model |-> "a.log", attrs |-> [BaseAttrs(id) EXCEPT !["weight"] = weight]]

RecIds == DOMAIN records

\* getattr(obj, name) on a model instance; NoAttr stands for AttributeError
GetAttr(rec, name) == IF name \in AttrNames THEN rec.attrs[name] ELSE NoAttr

\* getattr(value, name) on the value of an attribute
ValueAttr(v, name) ==
    IF v.kind = "obj" THEN
        IF name \in VisitAttrNames THEN VisitAttr(v.s, name)
        ELSE IF name = "name" THEN PyStr(v.s)
        ELSE IF name = "id" THEN PyStr(v.s)
        ELSE NoAttr
    ELSE NoAttr

(***************************************************************************)
(* FormRunner: the pure parts.                                             *)
(***************************************************************************)
\* FormRunner.get_panel_name
get_panel_name(rec) ==
    LET panel == IF GetAttr(rec, "panel") = NoAttr THEN None ELSE GetAttr(rec, "panel")
        name == ValueAttr(panel, "name")
    IN  IF name = NoAttr THEN None ELSE name

\* FormRunner.unique_opts: [exc, key]
unique_opts(rec, fldname) ==
    LET sv == GetAttr(rec, "subject_visit")
        get(a) == IF sv = NoAttr THEN GetAttr(rec, a) ELSE ValueAttr(sv, a)
    IN  IF \E a \in VisitAttrNames : get(a) = NoAttr
        THEN [exc |-> "AttributeError", key |-> <<>>]
        ELSE [exc |-> "",
              key |-> [label_lower |-> rec.model,
                       panel_name |-> get_panel_name(rec),
                       verbose_name |-> VerboseName(rec.model),
                       subject_identifier |-> get("subject_identifier"),
                       visit_code |-> get("visit_code"),
                       visit_code_sequence |-> get("visit_code_sequence"),
                       visit_schedule_name |-> get("visit_schedule_name"),
                       schedule_name |-> get("schedule_name"),
                       field_name |-> fldname]]

KeyFields ==
    {"label_lower", "panel_name", "verbose_name", "subject_identifier", "visit_code",
     "visit_code_sequence", "visit_schedule_name", "schedule_name", "field_name"}

\* the identity key of an Issue row
KeyOf(issue) == [f \in KeyFields |-> issue[f]]

SeqRange(q) == {q[i] : i \in 1..Len(q)}

\* FormRunner.get_form_data: [exc, data]; a key absent from the payload is NoAttr
get_form_data(rec, extra_formfields) ==
    LET simple(a) == IF FieldKind(rec.model, a) = "scalar" THEN rec.attrs[a] ELSE NoAttr
        related(a) ==
            LET v == GetAttr(rec, a)
            IN  IF ValueAttr(v, "id") = NoAttr THEN None ELSE v
        sv == GetAttr(rec, "subject_visit")
        extra == SeqRange(extra_formfields)
        base(a) ==
            IF FieldKind(rec.model, a) = "fk" THEN related(a)
            ELSE IF FieldKind(rec.model, a) = "m2m" THEN rec.attrs[a]
            ELSE simple(a)
        visited(a) ==
            IF a = "subject_visit" /\ sv /= NoAttr THEN sv
            ELSE IF a = "subject_identifier" /\ sv = NoAttr
            THEN GetAttr(rec, "subject_identifier")
            ELSE base(a)
    IN  IF sv = NoAttr /\ GetAttr(rec, "subject_identifier") = NoAttr
        THEN [exc |-> "AttributeError", data |-> <<>>]
        ELSE IF \E x \in extra : GetAttr(rec, x) = NoAttr
        THEN [exc |-> "AttributeError", data |-> <<>>]
        ELSE [exc |-> "",
              data |-> [a \in AttrNames |->
                          IF a \in extra THEN GetAttr(rec, a) ELSE visited(a)]]

\* The validation routine (the modelform's is_valid): what it reports for a
\* payload.  A weight below zero and a missing clinic are field errors, a
\* weight above 200 is a form-level error, and comparing a weight of None
\* with a number raises TypeError inside the form's clean().
ErrText(fldname) ==
    CASE fldname = "weight" -> "<b>Weight</b> must be positive."
      [] fldname = "clinic" -> "Select a clinic &amp; a &lt;site&gt;."
      [] OTHER -> "Invalid: " \o Rep("x", LongPad)

FormErrors(model, data) ==
    LET w == data["weight"]
        bad(f) ==
            CASE f = "weight" -> w.kind = "int" /\ w.n < 0
              [] f = "clinic" -> FieldKind(model, "clinic") = "fk" /\ data["clinic"] = None
              [] OTHER -> w.kind = "int" /\ w.n > 200
    IN  SelectSeq(<<"weight", "clinic", "__all__">>, bad)

is_valid(model, data) ==
    IF data["weight"] = None
    THEN [exc |-> "TypeError", errors |-> <<>>]
    ELSE [exc |-> "", errors |-> FormErrors(model, data)]

\* the error dict of line 50: the reported fields not in exclude_formfields
Errors(found, exclude_formfields) ==
    SelectSeq(found, LAMBDA f : f \notin SeqRange(exclude_formfields))

\* faulty filters: the panel_name test is lost
PassesFilters_NoPanel(rec, fldname, field_name, panel_name) ==
    ~(Truthy(field_name) /\ PyStr(fldname) /= field_name)

\* whether line 55-58 lets an error through to the delete and the write
PassesFilters(rec, fldname, field_name, panel_name) ==
    IF Truthy(panel_name) /\ panel_name /= get_panel_name(rec) THEN FALSE
    ELSE IF Truthy(field_name) /\ PyStr(fldname) /= field_name THEN FALSE
    ELSE TRUE

\* the response of line 67-70 and 77
Response(rec, fldname) ==
    LET v == GetAttr(rec, fldname)
    IN  Str(IF v = NoAttr THEN None ELSE v)

\* FormRunner.write_to_db: the row handed to Issue.objects.create
write_to_db(r, fldname, rec) ==
    LET raw_message == HtmlUnescape(AsText(ErrText(fldname)))
        message == SoupText(raw_message)
        rd == GetAttr(rec, "report_datetime")
    IN  [session_id |-> r.session_id,
         session_datetime |-> r.session_datetime,
         raw_message |-> raw_message,
         message |-> message,
         short_message |-> Slice(message, ShortLen),
         response |-> Response(rec, fldname),
         src_id |-> GetAttr(rec, "id"),
         src_revision |-> GetAttr(rec, "revision"),
         src_report_datetime |-> IF rd = NoAttr THEN None ELSE rd,
         src_modified_datetime |-> GetAttr(rec, "modified"),
         src_user_modified |-> GetAttr(rec, "user_modified"),
         site |-> GetAttr(rec, "site"),
         extra_formfields |-> JoinComma(r.extra_formfields),
         exclude_formfields |-> JoinComma(r.exclude_formfields)]
        @@ unique_opts(rec, fldname).key

\* faulty deletes: one that leaves field_name out of the filter, one that
\* deletes nothing, one that clears every row of the model
DeleteByKey_IgnoresField(rows, key) ==
    SelectSeq(rows, LAMBDA x : [KeyOf(x) EXCEPT !.field_name = key.field_name] /= key)

DeleteByKey_Nothing(rows, key) == rows

DeleteByKey_WholeModel(rows, key) ==
    SelectSeq(rows, LAMBDA x : x.label_lower /= key.label_lower)

\* Issue.objects.filter(**key).delete()
DeleteByKey(rows, key) == SelectSeq(rows, LAMBDA x : KeyOf(x) /= key)

\* Issue.objects.create(**row)
Create(rows, row) == Append(rows, row)

\* FormRunner.queryset: [exc, ids]; filter_options is a one-entry dict
\* (attr, val), attr = "" standing for None or {}
queryset(model_cls, filter_options) ==
    LET given == filter_options.attr /= ""
        match(id) ==
            /\ records[id].model = model_cls
            /\ given => GetAttr(records[id], filter_options.attr) = filter_options.val
        RECURSIVE ordered(_)
        ordered(ids) ==
            IF ids = {} THEN <<>>
            ELSE LET m == CHOOSE i \in ids : \A j \in ids : i <= j
                 IN  <<m>> \o ordered(ids \ {m})
    IN  IF given /\ FieldKind(model_cls, filter_options.attr) = "none"
        THEN [exc |-> "FieldError", ids |-> <<>>]
        ELSE [exc |-> "", ids |-> ordered({id \in RecIds : match(id)})]

(***************************************************************************)
(* FormRunner objects.  pc is the position of the object's run():          *)
(*   "none"   no object            "ready"  constructed, run() not active  *)
(*   "iter"   top of the for loop of line 46                               *)
(*   "errors" top of the for loop of line 54 (pending is not empty)        *)
(*   "write"  between the delete of line 59 and the write of line 60       *)
(*   "done"   run() has returned   "raised" run() has raised exc           *)
(***************************************************************************)
Procs == {1, 2}

NoFilterOptions == [attr |-> "", val |-> None]

NoRunner ==
    [pc |-> "none", session_id |-> 0, session_datetime |-> 0, model_cls |-> "",
     extra_formfields |-> <<>>, exclude_formfields |-> <<>>,
     filter_options |-> NoFilterOptions, field_name |-> None, panel_name |-> None,
     queue |-> <<>>, cur |-> 0, pending |-> <<>>, exc |-> "", at |-> ""]

NoBatch ==
    [pc |-> "none", app_labels |-> <<>>, model_names |-> <<>>, modelforms |-> <<>>,
     todo |-> <<>>, started |-> <<>>, caught |-> <<>>, exc |-> ""]

NoLast == [valid |-> FALSE, run |-> 0, cfg |-> <<>>, issues |-> <<>>]

Active(p) == runner[p].pc \in {"iter", "errors", "write", "done"}

\* the configuration and arguments a run was made with
CfgOf(r) ==
    <<r.model_cls, r.extra_formfields, r.exclude_formfields, r.filter_options,
      r.field_name, r.panel_name>>

Raise(r, exc, at) == [r EXCEPT !.pc = "raised", !.exc = exc, !.at = at]

\* FormRunner.__init__: the object; session stands for uuid4() and get_utcnow()
NewRunner(session, model_cls, extra_formfields, exclude_formfields, filter_options) ==
    [NoRunner EXCEPT !.pc = "ready",
                     !.session_id = session,
                     !.session_datetime = session,
                     !.model_cls = model_cls,
                     !.extra_formfields = extra_formfields,
                     !.exclude_formfields = exclude_formfields,
                     !.filter_options = filter_options]

\* FormRunner.run, line 45-46: the working set is resolved
Entered(r, field_name, panel_name) ==
    LET qs == queryset(r.model_cls, r.filter_options)
        started == [r EXCEPT !.field_name = field_name, !.panel_name = panel_name,
                             !.queue = qs.ids, !.cur = 0, !.pending = <<>>,
                             !.exc = "", !.at = ""]
    IN  IF qs.exc /= "" THEN Raise(started, qs.exc, "queryset")
        ELSE [started EXCEPT !.pc = "iter"]

\* a caller constructs a FormRunner
Construct(p, model_cls, extra_formfields, exclude_formfields, filter_options) ==
    /\ runner[p].pc \in {"none", "raised"} \/ (runner[p].pc = "ready" /\ hist.runs > 0)
    /\ sessions < MaxSessions
    /\ sessions' = sessions + 1
    /\ runner' = [runner EXCEPT ![p] =
          NewRunner(sessions + 1, model_cls, extra_formfields, exclude_formfields,
                    filter_options)]
    /\ UNCHANGED <<records, issues, edits, hist, batch>>

\* a caller calls run() on its FormRunner
Run(p, field_name, panel_name) ==
    /\ runner[p].pc = "ready"
    /\ hist.runs < MaxRuns
    /\ runner' = [runner EXCEPT ![p] = Entered(runner[p], field_name, panel_name)]
    /\ hist' = [hist EXCEPT !.start = issues, !.runs = @ + 1]
    /\ UNCHANGED <<records, issues, sessions, edits, batch>>

\* after the last error of a record the outer loop goes on
AfterError(rest) == IF rest = <<>> THEN "iter" ELSE "errors"

\* FormRunner.run, line 46-53: the next instance is rebuilt and validated, or
\* the loop ends and run() returns
Iterate(p) ==
    LET r == runner[p]
        id == Head(r.queue)
        rec == records[id]
        fd == get_form_data(rec, r.extra_formfields)
        form == is_valid(r.model_cls, fd.data)
        errors == Errors(form.errors, r.exclude_formfields)
        at == [r EXCEPT !.cur = id, !.queue = Tail(r.queue)]
    IN  /\ r.pc = "iter"
        /\ runner' = [runner EXCEPT ![p] =
              IF r.queue = <<>> THEN [r EXCEPT !.pc = "done", !.cur = 0]
              ELSE IF fd.exc /= "" THEN Raise(at, fd.exc, "get_form_data")
              ELSE IF form.exc /= "" THEN Raise(at, form.exc, "is_valid")
              ELSE [at EXCEPT !.pending = errors, !.pc = AfterError(errors)]]
        /\ UNCHANGED <<records, issues, sessions, edits, hist, batch>>

\* FormRunner.run, line 55-58: an error the filters do not let through
Skip(p) ==
    LET r == runner[p]
    IN  /\ r.pc = "errors"
        /\ ~PassesFilters(records[r.cur], Head(r.pending), r.field_name, r.panel_name)
        /\ runner' = [runner EXCEPT ![p] =
              [r EXCEPT !.pending = Tail(r.pending), !.pc = AfterError(Tail(r.pending))]]
        /\ UNCHANGED <<records, issues, sessions, edits, hist, batch>>

\* FormRunner.run, line 59: the rows with the error's identity key are deleted
Delete(p) ==
    LET r == runner[p]
        uo == unique_opts(records[r.cur], Head(r.pending))
    IN  /\ r.pc = "errors"
        /\ PassesFilters(records[r.cur], Head(r.pending), r.field_name, r.panel_name)
        /\ IF uo.exc /= ""
           THEN /\ runner' = [runner EXCEPT ![p] = Raise(r, uo.exc, "unique_opts")]
                /\ UNCHANGED issues
           ELSE /\ runner' = [runner EXCEPT ![p].pc = "write"]
                /\ issues' = DeleteByKey(issues, uo.key)
        /\ UNCHANGED <<records, sessions, edits, hist, batch>>

\* the identity key of the error run() is at
PendingKey(r) == unique_opts(records[r.cur], Head(r.pending)).key

\* FormRunner.run, line 60: write_to_db creates the row
Write(p) ==
    LET r == runner[p]
    IN  /\ r.pc = "write"
        /\ issues' = Create(issues, write_to_db(r, Head(r.pending), records[r.cur]))
        /\ runner' = [runner EXCEPT ![p] =
              [r EXCEPT !.pending = Tail(r.pending), !.pc = AfterError(Tail(r.pending))]]
        /\ hist' = [hist EXCEPT !.writes =
              {w \in @ : w[1] /= PendingKey(r)} \cup {<<PendingKey(r), r.session_id>>}]
        /\ UNCHANGED <<records, sessions, edits, batch>>

\* run() has returned to its caller, which keeps the object
Return(p) ==
    /\ runner[p].pc = "done"
    /\ runner' = [runner EXCEPT ![p] =
          [@ EXCEPT !.pc = "ready", !.field_name = None, !.panel_name = None]]
    /\ hist' = [hist EXCEPT !.dirty = FALSE, !.start = <<>>,
                            !.last = [valid |-> TRUE, run |-> hist.runs,
                                      cfg |-> CfgOf(runner[p]), issues |-> issues]]
    /\ UNCHANGED <<records, issues, sessions, edits, batch>>

\* Outside any run somebody changes a stored instance (Model.save sets modified)
Edit(id, attr, val) ==
    /\ \A p \in Procs : ~Active(p)
    /\ edits < MaxEdits
    /\ hist.runs > 0
    /\ id \in RecIds
    /\ records[id].attrs[attr] \notin {NoAttr, val}
    /\ edits' = edits + 1
    /\ records' = [records EXCEPT ![id].attrs =
          [@ EXCEPT ![attr] = val, !["modified"] = PyInt(@.n + 1)]]
    /\ hist' = [hist EXCEPT !.dirty = TRUE]
    /\ UNCHANGED <<issues, runner, sessions, batch>>

(***************************************************************************)
(* Sequential use: one FormRunner object at a time, constructed and run by *)
(* a caller, with the stored data changing only between runs.              *)
(***************************************************************************)
Nurse(rec, who) == [rec EXCEPT !.attrs["nurse"] = who]

\* the first instance of a.crf: a requisition of panel p1 at visit v1
FirstCrfs ==
    {Nurse(Crf(1, PyObj("v1"), PyObj("p1"), PyInt(-1), None), PyStr("n1")),
     Nurse(Crf(1, PyObj("v1"), PyObj("p1"), PyInt(500), PyObj("c1")), PyStr("n1"))}

\* the second: at another visit and without a panel, or with the identity of
\* the first
SecondCrfs ==
    {Crf(2, PyObj("v2"), None, PyInt(-1), PyObj("c1")),
     Crf(2, PyObj("v1"), PyObj("p1"), PyInt(-1), PyObj("c1"))}

\* rows left by earlier sessions: two for one key, one for an error since
\* fixed or not, one of another model
OldRow(rec, fldname) == write_to_db(NoRunner, fldname, rec)

OldCrf == Crf(1, PyObj("v1"), PyObj("p1"), PyInt(-1), None)

OldIssues ==
    <<OldRow(OldCrf, "weight"), OldRow(OldCrf, "weight"), OldRow(OldCrf, "clinic"),
      OldRow(Visit(3, "v1", PyInt(-1)), "weight")>>

NoHist == [start |-> <<>>, runs |-> 0, dirty |-> FALSE, last |-> NoLast, writes |-> {}]

Init ==
    /\ \E r1 \in FirstCrfs, r2 \in SecondCrfs :
          records = <<r1, r2, Visit(3, "v1", PyInt(-1))>>
    /\ issues \in {<<>>, OldIssues}
    /\ runner = [p \in Procs |-> NoRunner]
    /\ sessions = 0
    /\ edits = 0
    /\ hist = NoHist
    /\ batch = NoBatch

DefaultConfig == <<<<>>, <<>>, NoFilterOptions>>

\* the constructor arguments tried: the defaults, and each option on its own
RunnerConfigs ==
    {DefaultConfig,
     <<<<"nurse">>, <<>>, NoFilterOptions>>,
     <<<<>>, <<"clinic">>, NoFilterOptions>>,
     <<<<>>, <<>>, [attr |-> "subject_visit", val |-> PyObj("v1")]>>,
     <<<<>>, <<>>, [attr |-> "nurse", val |-> PyStr("n1")]>>}

FieldNameArgs == {None, PyStr(""), PyStr("weight")}
PanelNameArgs == {None, PyStr("p1")}

EditValues(attr) ==
    IF attr = "weight" THEN {PyInt(-1), PyInt(70)} ELSE {PyObj("c1")}

SeqConstruct ==
    \E c \in RunnerConfigs : Construct(1, "a.crf", c[1], c[2], c[3])

\* the run arguments tried: any filters on a FormRunner made with the default
\* options, no filter on the others
SeqRun ==
    \E f \in FieldNameArgs, pn \in PanelNameArgs :
        /\ <<f, pn>> = <<None, None>>
              \/ <<runner[1].extra_formfields, runner[1].exclude_formfields,
                    runner[1].filter_options>> = DefaultConfig
        /\ Run(1, f, pn)

SeqEdit ==
    \E attr \in {"weight", "clinic"} :
        \E val \in EditValues(attr) : Edit(1, attr, val)

Next ==
    \/ SeqConstruct
    \/ SeqRun
    \/ Iterate(1)
    \/ Skip(1)
    \/ Delete(1)
    \/ Write(1)
    \/ Return(1)
    \/ SeqEdit

Spec == Init /\ [][Next]_vars

(***************************************************************************)
(* Two callers at once: each constructs a FormRunner over a.crf with the   *)
(* default options and runs it; every database operation of one may fall   *)
(* between two of the other.                                               *)
(***************************************************************************)
ConcInit ==
    /\ \E r1 \in FirstCrfs, r2 \in SecondCrfs :
          records = <<r1, r2, Visit(3, "v1", PyInt(-1))>>
    /\ issues = <<>>
    /\ runner = [p \in Procs |-> NoRunner]
    /\ sessions = 0
    /\ edits = 0
    /\ hist = NoHist
    /\ batch = NoBatch

ConcConstruct(p) ==
    /\ runner[p].pc = "none"
    /\ Construct(p, "a.crf", <<>>, <<>>, NoFilterOptions)

ConcNext ==
    \E p \in Procs :
        \/ ConcConstruct(p)
        \/ Run(p, None, None)
        \/ Iterate(p)
        \/ Delete(p)
        \/ Write(p)

ConcSpec == ConcInit /\ [][ConcNext]_vars

(***************************************************************************)
(* run_form_runners.  pc is its position:                                  *)
(*   "none" not called   "loop" top of the for loop of line 56             *)
(*   "running" inside FormRunner(...).run() of line 59                     *)
(*   "done" returned     "raised" left by an exception                     *)
(***************************************************************************)
\* django_apps.get_app_configs(), in order, and each app's get_models()
AppConfigs == <<"a", "b">>

AppModels(app) == IF app = "a" THEN <<"a.crf", "a.log">> ELSE <<"b.visit">>

\* get_modelform_cls: the models some admin site has registered a form for
get_modelform_cls(label_lower) == label_lower \in {"a.crf", "b.visit"}

RECURSIVE ModelsOfApps(_, _, _)
\* line 44-46: the loop over the app configs
ModelsOfApps(configs, app_labels, models) ==
    IF configs = <<>> THEN models
    ELSE ModelsOfApps(Tail(configs), app_labels,
                      IF Head(configs) \in SeqRange(app_labels)
                      THEN AppModels(Head(configs))
                      ELSE models)

\* line 52-55
ModelForms(models) == SelectSeq(models, get_modelform_cls)

\* faulty handler: AttributeError is not caught
Caught_FieldErrorOnly(exc) == exc = "FieldError"

\* line 60: except (AttributeError, FieldError)
Caught(exc) == exc \in {"AttributeError", "FieldError"}

\* run_form_runners, line 42-55
BatchCall(app_labels, model_names) ==
    LET models == IF app_labels /= <<>> THEN ModelsOfApps(AppConfigs, app_labels, <<>>)
                  ELSE model_names
        called == [NoBatch EXCEPT !.app_labels = app_labels, !.model_names = model_names]
    IN  /\ batch.pc = "none"
        /\ batch' = IF app_labels = <<>> /\ model_names = <<>>
                    THEN [called EXCEPT !.pc = "raised", !.exc = "FormRunnerError"]
                    ELSE [called EXCEPT !.pc = "loop",
                                        !.modelforms = ModelForms(models),
                                        !.todo = ModelForms(models)]
        /\ UNCHANGED <<records, issues, runner, sessions, edits, hist>>

\* run_form_runners, line 56-59: the next FormRunner is made and run() entered,
\* or the loop ends
BatchStart ==
    /\ batch.pc = "loop"
    /\ IF batch.todo = <<>>
       THEN /\ batch' = [batch EXCEPT !.pc = "done"]
            /\ UNCHANGED <<runner, sessions, hist>>
       ELSE /\ batch' = [batch EXCEPT !.pc = "running", !.todo = Tail(@),
                                      !.started = Append(@, Head(batch.todo))]
            /\ sessions' = sessions + 1
            /\ runner' = [runner EXCEPT ![1] =
                  Entered(NewRunner(sessions + 1, Head(batch.todo), <<>>, <<>>,
                                    NoFilterOptions),
                          None, None)]
            /\ hist' = [hist EXCEPT !.start = issues, !.runs = @ + 1]
    /\ UNCHANGED <<records, issues, edits>>

\* run_form_runners, line 59-61: run() has returned or raised
BatchAfter ==
    LET r == runner[1]
    IN  /\ batch.pc = "running"
        /\ r.pc \in {"done", "raised"}
        /\ batch' = IF r.pc = "done" THEN [batch EXCEPT !.pc = "loop"]
                    ELSE IF Caught(r.exc)
                    THEN [batch EXCEPT !.pc = "loop",
                                       !.caught = Append(@, <<r.model_cls, r.exc>>)]
                    ELSE [batch EXCEPT !.pc = "raised", !.exc = r.exc]
        /\ runner' = [runner EXCEPT ![1] = NoRunner]
        /\ UNCHANGED <<records, issues, sessions, edits, hist>>

\* an instance of a.crf whose weight is None, and one whose related visit is
\* not set
UnweighedCrf == Crf(2, PyObj("v2"), None, None, PyObj("c1"))

UnvisitedCrf == Crf(2, None, PyObj("p1"), PyInt(70), None)

BatchInit ==
    /\ \E r1 \in FirstCrfs, r2 \in SecondCrfs \cup {UnweighedCrf, UnvisitedCrf},
          w \in {PyInt(-1), PyInt(70)} :
          records = <<r1, r2, Visit(3, "v1", w), Log(4, PyInt(-1))>>
    /\ issues \in {<<>>, OldIssues}
    /\ runner = [p \in Procs |-> NoRunner]
    /\ sessions = 0
    /\ edits = 0
    /\ hist = NoHist
    /\ batch = NoBatch

AppLabelArgs == {<<>>, <<"a">>, <<"b">>, <<"a", "b">>, <<"b", "a">>}

ModelNameArgs ==
    {<<>>, <<"a.crf">>, <<"a.log">>, <<"a.crf", "b.visit">>, <<"b.visit", "a.crf">>,
     <<"a.log", "b.visit", "a.crf">>}

BatchNext ==
    \/ \E a \in AppLabelArgs, m \in ModelNameArgs : BatchCall(a, m)
    \/ BatchStart
    \/ BatchAfter
    \/ Iterate(1)
    \/ Delete(1)
    \/ Write(1)

BatchSpec == BatchInit /\ [][BatchNext]_vars

(***************************************************************************)
(* What the claims speak about.                                            *)
(***************************************************************************)
FormFields == {"weight", "clinic", "__all__"}

\* the instances a run of r goes over
WorkingSet(r) == SeqRange(queryset(r.model_cls, r.filter_options).ids)

\* the fields on which validation reports an error for rec, as r sees them
Reported(r, rec) ==
    SeqRange(is_valid(r.model_cls, get_form_data(rec, r.extra_formfields).data).errors)

IssueRows == 1..Len(issues)

RowsWithKey(rows, key) == {k \in 1..Len(rows) : KeyOf(rows[k]) = key}

Keys(rows) == {KeyOf(rows[k]) : k \in 1..Len(rows)}

Count(rows, x) == Cardinality({k \in 1..Len(rows) : rows[k] = x})

\* the rows a step removed or added
Changed(before, after) ==
    {x \in SeqRange(before) \cup SeqRange(after) : Count(before, x) /= Count(after, x)}

\* a row without the fields that name the session that wrote it
Unsessioned(x) == [x EXCEPT !.session_id = 0, !.session_datetime = 0]

WithoutSessions(rows) == [k \in 1..Len(rows) |-> Unsessioned(rows[k])]

Unfiltered(r) == ~Truthy(r.field_name) /\ ~Truthy(r.panel_name)

\* C1: when a run without field_name and panel_name filter has returned, every
\* instance of the working set and every reported, non-excluded field has
\* exactly one Issue row with its identity key, whatever the table held
\* before, and the row's short_message is the first 250 characters of its
\* message.
C1_OneIssuePerError ==
    \A p \in Procs :
        LET r == runner[p]
        IN  (r.pc = "done" /\ Unfiltered(r)) =>
                \A id \in WorkingSet(r) :
                    \A F \in Reported(r, records[id]) \ SeqRange(r.exclude_formfields) :
                        LET rows == RowsWithKey(issues, unique_opts(records[id], F).key)
                        IN  /\ Cardinality(rows) = 1
                            /\ \A k \in rows :
                                  /\ Len(issues[k].short_message)
                                        = Min(Len(issues[k].message), 250)
                                  /\ issues[k].short_message
                                        = SubSeq(issues[k].message, 1,
                                                 Len(issues[k].short_message))

\* C1 witness: an unfiltered run has returned; the table held two rows of one
\* key before it and holds one now, and a row of this session was cut to 250
\* characters.
C1_Witness ==
    \E p \in Procs :
        /\ runner[p].pc = "done" /\ Unfiltered(runner[p])
        /\ \E key \in Keys(hist.start) :
              /\ Cardinality(RowsWithKey(hist.start, key)) = 2
              /\ Cardinality(RowsWithKey(issues, key)) = 1
        /\ \E k \in IssueRows :
              /\ issues[k].session_id = runner[p].session_id
              /\ Len(issues[k].message) > 250
              /\ Len(issues[k].short_message) = 250

\* C2 (as claimed): when a run has returned, an instance of its working set
\* has no row written by an earlier or this session for a field on which
\* validation reports no error (for it or any instance sharing its key).
C2_FixedErrorHasNoIssue ==
    \A p \in Procs :
        LET r == runner[p]
            stillReported(key) ==
                \E id \in WorkingSet(r) : \E F \in Reported(r, records[id]) :
                    unique_opts(records[id], F).key = key
        IN  r.pc = "done" =>
                \A id \in WorkingSet(r) : \A F \in FormFields \ Reported(r, records[id]) :
                    LET key == unique_opts(records[id], F).key
                    IN  stillReported(key) \/
                        \A k \in RowsWithKey(issues, key) : issues[k].session_id = 0

\* the run of r comes right after a run that returned, made with the same
\* configuration and arguments, and no instance was changed in between
Repeats(r) ==
    /\ hist.last.valid /\ hist.last.run + 1 = hist.runs
    /\ ~hist.dirty
    /\ hist.last.cfg = CfgOf(r)

\* C3: a run made with the configuration and arguments of the run right before
\* it, the stored data unchanged in between, leaves the table as that run left
\* it but for the session fields: no row more, no row less, and one row per
\* key it wrote.
C3_Idempotent ==
    \A p \in Procs :
        LET r == runner[p]
        IN  (r.pc = "done" /\ Repeats(r)) =>
                /\ WithoutSessions(issues) = WithoutSessions(hist.last.issues)
                /\ \A k \in IssueRows :
                      issues[k].session_id = r.session_id =>
                          Cardinality(RowsWithKey(issues, KeyOf(issues[k]))) = 1

\* C3 witness: the second of two such runs has returned, by a new FormRunner
\* object, and rows of its session are in the table.
C3_Witness ==
    \E p \in Procs :
        /\ runner[p].pc = "done" /\ Repeats(runner[p])
        /\ runner[p].session_id = 2
        /\ Cardinality({k \in IssueRows : issues[k].session_id = 2}) >= 2
        /\ issues /= hist.last.issues

\* C4: in a run with a field_name filter only rows of that field are removed
\* or added, in a run with a panel_name filter only rows of instances whose
\* panel has that name; with both, both.
C4_FiltersRestrict ==
    [][\A p \in Procs :
          LET r == runner[p]
          IN  (r.pc \in {"errors", "write"} /\ issues' /= issues) =>
                  /\ Truthy(r.field_name) =>
                        /\ PyStr(Head(r.pending)) = r.field_name
                        /\ \A x \in Changed(issues, issues') :
                              PyStr(x.field_name) = r.field_name
                  /\ Truthy(r.panel_name) =>
                        /\ get_panel_name(records[r.cur]) = r.panel_name
                        /\ \A x \in Changed(issues, issues') :
                              x.panel_name = r.panel_name]_vars

\* C4 witness: a run with both filters has returned; it wrote a row, and an
\* instance of its working set has a reported error it wrote no row for.
C4_Witness ==
    \E p \in Procs :
        LET r == runner[p]
        IN  /\ r.pc = "done" /\ Truthy(r.field_name) /\ Truthy(r.panel_name)
            /\ \E k \in IssueRows : issues[k].session_id = r.session_id
            /\ \E id \in WorkingSet(r) : \E F \in Reported(r, records[id]) :
                  /\ PyStr(F) /= r.field_name
                  /\ RowsWithKey(issues, unique_opts(records[id], F).key) = {}
            /\ \E id \in WorkingSet(r) :
                  /\ get_panel_name(records[id]) /= r.panel_name
                  /\ Reported(r, records[id]) /= {}

\* C6 (as claimed): no run is ever aborted by a missing attribute met while
\* get_form_data rebuilds the payload.
C6_AttributeFailuresNeverAbort ==
    \A p \in Procs :
        ~(runner[p].pc = "raised" /\ runner[p].exc = "AttributeError"
            /\ runner[p].at = "get_form_data")

\* C8 (as claimed): the response of a row written for an instance that has not
\* changed since is the string form of the instance's value for the field, and
\* the empty string when the instance has no such attribute.
C8_ResponseOrEmpty ==
    \A k \in IssueRows : \A id \in RecIds :
        LET x == issues[k]
            rec == records[id]
            v == GetAttr(rec, x.field_name)
        IN  (/\ x.session_id >= 1
             /\ x.src_id = PyInt(id)
             /\ x.label_lower = rec.model
             /\ x.src_modified_datetime = GetAttr(rec, "modified")) =>
                x.response = (IF v = NoAttr THEN "" ELSE Str(v))

\* the keys a run of r deletes and writes
TouchedKeys(r) ==
    UNION {{unique_opts(records[id], F).key :
               F \in {G \in Reported(r, records[id]) \ SeqRange(r.exclude_formfields) :
                         PassesFilters(records[id], G, r.field_name, r.panel_name)}} :
           id \in WorkingSet(r)}

\* a step that changes the table is the delete by the pending error's key, or
\* the create of a row with that key that follows it
C10_Step ==
    /\ issues' /= issues =>
          \E p \in Procs :
              LET r == runner[p]
              IN  \/ /\ r.pc = "errors"
                     /\ runner'[p] = [r EXCEPT !.pc = "write"]
                     /\ issues' = SelectSeq(issues, LAMBDA x : KeyOf(x) /= PendingKey(r))
                  \/ /\ r.pc = "write"
                     /\ Len(issues') = Len(issues) + 1
                     /\ SubSeq(issues', 1, Len(issues)) = issues
                     /\ KeyOf(issues'[Len(issues')]) = PendingKey(r)
    /\ \A p \in Procs : runner[p].pc = "write" => issues' /= issues

\* when a run has returned, the rows of every key it had no error to write
\* for are as they were when it started, and no key is gone from the table
C10_Frame ==
    \A p \in Procs :
        LET r == runner[p]
            touched == TouchedKeys(r)
        IN  r.pc = "done" =>
                /\ Keys(hist.start) \subseteq Keys(issues)
                /\ SelectSeq(issues, LAMBDA x : KeyOf(x) \notin touched)
                      = SelectSeq(hist.start, LAMBDA x : KeyOf(x) \notin touched)

\* C10: within a run a row is deleted only by identity key, as the step right
\* before a row with that key is created for the same instance and field;
\* rows are not changed otherwise; rows of other keys stay as they are, so the
\* set of keys in the table does not shrink over runs that return.
C10_DeleteOnlyBeforeCreate == []C10_Frame /\ [][C10_Step]_vars

\* C10 witness: a run over a table with old rows has returned; a row of
\* another model is still there, and a key of an old row now belongs to a row
\* of this session.
C10_Witness ==
    \E p \in Procs :
        /\ runner[p].pc = "done" /\ hist.start = OldIssues
        /\ \E k \in IssueRows :
              issues[k].session_id = 0 /\ issues[k].label_lower = "b.visit"
        /\ \E k \in IssueRows :
              /\ issues[k].session_id = runner[p].session_id
              /\ KeyOf(issues[k]) \in Keys(hist.start)

WrittenKeys == {w[1] : w \in hist.writes}

\* the session of the last create of a row with the key
LastWriter(key) == (CHOOSE w \in hist.writes : w[1] = key)[2]

\* C5 (as claimed): once two concurrent runs have both returned, every key
\* they wrote has one row, the one of the later create.
C5_LastWriterWins ==
    (\A p \in Procs : runner[p].pc = "done") =>
        \A key \in WrittenKeys :
            /\ Cardinality(RowsWithKey(issues, key)) = 1
            /\ \A k \in RowsWithKey(issues, key) : issues[k].session_id = LastWriter(key)

\* a caught exception type never leaves run_form_runners, and when it has
\* returned a run was started for every pair of its list, in order
C7_Continues ==
    /\ batch.pc = "raised" => ~(batch.exc \in {"AttributeError", "FieldError"})
    /\ batch.pc = "done" => batch.started = batch.modelforms
    /\ batch.pc \in {"loop", "running", "done"} =>
          /\ Len(batch.started) + Len(batch.todo) = Len(batch.modelforms)
          /\ batch.started \o batch.todo = batch.modelforms

\* the handler deletes no row, a later run deletes no row of another model,
\* an exception of another type stops the batch there and then
C7_Step ==
    /\ (batch.pc = "running" /\ runner[1].pc = "raised") =>
          /\ issues' = issues
          /\ batch'.pc = IF runner[1].exc \in {"AttributeError", "FieldError"}
                         THEN "loop" ELSE "raised"
          /\ batch'.pc = "raised" => batch'.exc = runner[1].exc
    /\ \A x \in SeqRange(issues) :
          x.label_lower /= runner[1].model_cls => Count(issues', x) = Count(issues, x)
    /\ batch.pc /= "raised"

\* C7: run_form_runners catches an AttributeError or FieldError of one model's
\* run and goes on: a run is started for every later pair, and the rows of
\* earlier models and of the failed model stay; another exception type
\* propagates and stops the batch.
C7_BatchContinues == []C7_Continues /\ [][C7_Step]_vars

\* C7 witness: the batch has returned after catching the AttributeError of a
\* model that was not the last of its list; rows written by the failed run
\* and by a later run are in the table.
C7_Witness ==
    /\ batch.pc = "done"
    /\ \E i \in 1..Len(batch.modelforms) :
          /\ i < Len(batch.modelforms)
          /\ batch.caught = <<<<batch.modelforms[i], "AttributeError">>>>
          /\ \E k \in IssueRows :
                issues[k].session_id = i /\ issues[k].label_lower = batch.modelforms[i]
          /\ \E k \in IssueRows : issues[k].session_id > i

\* the app a model belongs to
AppOf(model) == IF model \in {"a.crf", "a.log"} THEN "a" ELSE "b"

\* the models a call is to run: registered, and of a listed app or named
Wanted(b) ==
    {m \in {"a.crf", "a.log", "b.visit"} :
        /\ get_modelform_cls(m)
        /\ IF b.app_labels /= <<>> THEN AppOf(m) \in SeqRange(b.app_labels)
           ELSE m \in SeqRange(b.model_names)}

\* C9 (as claimed): when run_form_runners has returned, a run was started
\* exactly once for every registered model of any listed app or, with model
\* names, for every named registered model, and for no other.
C9_WholeBatchOnce ==
    batch.pc = "done" =>
        \A m \in {"a.crf", "a.log", "b.visit"} :
            Cardinality({i \in 1..Len(batch.started) : batch.started[i] = m})
                = IF m \in Wanted(batch) THEN 1 ELSE 0
====
